---- MODULE Spec2Model ----
(***************************************************************************)
(* Model of generate_pdf.py: the invoice normaliser                        *)
(* (parse_invoices_from_data), the loaders, the numbered menu              *)
(* (select_option) and the linear shell (main).                            *)
(*                                                                         *)
(* Python strings are sequences of one-character strings, so that          *)
(* str(), int(), strip(), sorted() and the sanitiser of main work on       *)
(* characters as the code does.  Python values are tagged records          *)
(* [t, s, n]: t is the type, s the text of a str, n the number of an int   *)
(* or of a float n.0.                                                      *)
(***************************************************************************)
EXTENDS Integers, Sequences, FiniteSets, TLC

\* ------------------------------------------------------------ bounds
\* Largest number of data rows of a CSV file.
MaxRows == 2
\* Largest number of elements of a JSON array.
MaxElems == 2

\* ------------------------------------------------------------ characters
Digits == <<"0", "1", "2", "3", "4", "5", "6", "7", "8", "9">>

DigitSet == {Digits[i] : i \in 1..Len(Digits)}

Letters ==
    {"A", "B", "C", "D", "E", "F", "G", "H", "I", "J", "K", "L", "M",
     "N", "O", "P", "Q", "R", "S", "T", "U", "V", "W", "X", "Y", "Z",
     "a", "b", "c", "d", "e", "f", "g", "h", "i", "j", "k", "l", "m",
     "n", "o", "p", "q", "r", "s", "t", "u", "v", "w", "x", "y", "z"}

\* The characters of the model in code point order (what sorted() compares).
Ascii ==
    <<" ", "+", "-", ".", "/",
      "0", "1", "2", "3", "4", "5", "6", "7", "8", "9", ":",
      "A", "B", "C", "D", "E", "F", "G", "H", "I", "J", "K", "L", "M",
      "N", "O", "P", "Q", "R", "S", "T", "U", "V", "W", "X", "Y", "Z", "_",
      "a", "b", "c", "d", "e", "f", "g", "h", "i", "j", "k", "l", "m",
      "n", "o", "p", "q", "r", "s", "t", "u", "v", "w", "x", "y", "z">>

Ord(c) == CHOOSE i \in 1..Len(Ascii) : Ascii[i] = c

\* str.isalnum() of one character.
IsAlnum(c) == c \in Letters \cup DigitSet

\* str.isspace() of one character.
IsSpace(c) == c = " "

DigitVal(c) == (CHOOSE i \in 1..Len(Digits) : Digits[i] = c) - 1

\* ------------------------------------------------------------ Python values
StrV(s) == [t |-> "str", s |-> s, n |-> 0]

IntV(n) == [t |-> "int", s |-> <<>>, n |-> n]

\* The float n.0
FloatV(n) == [t |-> "float", s |-> <<>>, n |-> n]

\* float("nan"), what pandas gives for an empty cell
NaN == [t |-> "nan", s |-> <<>>, n |-> 0]

None == [t |-> "none", s |-> <<>>, n |-> 0]

\* A key that the mapping does not hold.
Absent == [t |-> "absent", s |-> <<>>, n |-> 0]

\* bool(v)
Truthy(v) ==
    CASE v.t = "str" -> v.s # <<>>
      [] v.t = "int" -> v.n # 0
      [] v.t = "float" -> v.n # 0
      [] v.t = "nan" -> TRUE
      [] OTHER -> FALSE

\* a or b
PyOr(a, b) == IF Truthy(a) THEN a ELSE b

\* d.get(k)
Get(d, k) == IF d[k] = Absent THEN None ELSE d[k]

\* d.get(k, default)
GetD(d, k, default) == IF d[k] = Absent THEN default ELSE d[k]

RECURSIVE NatToStr(_)
NatToStr(n) ==
    IF n < 10 THEN <<Digits[n + 1]>>
    ELSE NatToStr(n \div 10) \o <<Digits[(n % 10) + 1]>>

IntToStr(n) == IF n < 0 THEN <<"-">> \o NatToStr(-n) ELSE NatToStr(n)

\* str(v), as a sequence of characters
PyStr(v) ==
    CASE v.t = "str" -> v.s
      [] v.t = "int" -> IntToStr(v.n)
      [] v.t = "float" -> IntToStr(v.n) \o <<".", "0">>
      [] v.t = "nan" -> <<"n", "a", "n">>
      [] OTHER -> <<"N", "o", "n", "e">>

RECURSIVE LStrip(_)
LStrip(s) == IF s # <<>> /\ IsSpace(Head(s)) THEN LStrip(Tail(s)) ELSE s

RECURSIVE RStrip(_)
RStrip(s) ==
    IF s # <<>> /\ IsSpace(s[Len(s)]) THEN RStrip(SubSeq(s, 1, Len(s) - 1)) ELSE s

\* s.strip()
Strip(s) == RStrip(LStrip(s))

RECURSIVE DigitsToNat(_)
DigitsToNat(ds) ==
    IF ds = <<>> THEN 0
    ELSE DigitsToNat(SubSeq(ds, 1, Len(ds) - 1)) * 10 + DigitVal(ds[Len(ds)])

AllDigits(ds) == ds # <<>> /\ \A i \in 1..Len(ds) : ds[i] \in DigitSet

\* int(s) of a str: surrounding white space and one sign are accepted; anything
\* else raises ValueError.  (Digit-group underscores are not modelled.)
IntOfText(s) ==
    LET b == Strip(s)
        signed == b # <<>> /\ Head(b) \in {"+", "-"}
        ds == IF signed THEN Tail(b) ELSE b
    IN  IF AllDigits(ds)
        THEN [exc |-> "none",
              n |-> IF signed /\ Head(b) = "-" THEN -DigitsToNat(ds) ELSE DigitsToNat(ds)]
        ELSE [exc |-> "ValueError", n |-> 0]

\* int(v)
PyInt(v) ==
    CASE v.t = "str" -> IntOfText(v.s)
      [] v.t = "int" -> [exc |-> "none", n |-> v.n]
      [] v.t = "float" -> [exc |-> "none", n |-> v.n]
      [] v.t = "nan" -> [exc |-> "ValueError", n |-> 0]
      [] OTHER -> [exc |-> "TypeError", n |-> 0]

\* isinstance(v, str)
IsStr(v) == v.t = "str"

\* isinstance(v, int)
IsInt(v) == v.t = "int"

\* ------------------------------------------------------------ dict
EmptyDict == <<>>

\* d[k] = v
Put(d, k, v) == [x \in (DOMAIN d) \cup {k} |-> IF x = k THEN v ELSE d[x]]

\* ------------------------------------------------------------ load_csv
Columns == {"invoice_id", "id", "product", "name", "price", "qty", "quantity"}

\* A cell that pandas reads as a number.
IsNumText(s) == IntOfText(s).exc = "none"

\* pd.read_csv(...).to_dict(orient="records"): the value of cell i of column c.
\* The column decides the type: all cells integers -> int; integers and empty
\* cells -> float with nan for the empty ones; anything else -> the text, with
\* nan for the empty cells.
PandasCell(rows, c, i) ==
    LET cell == rows[i][c]
        allInt == \A j \in 1..Len(rows) : IsNumText(rows[j][c])
        allNum == \A j \in 1..Len(rows) : rows[j][c] = <<>> \/ IsNumText(rows[j][c])
    IN  IF allInt THEN IntV(IntOfText(cell).n)
        ELSE IF cell = <<>> THEN NaN
        ELSE IF allNum THEN FloatV(IntOfText(cell).n)
        ELSE StrV(cell)

\* csv.DictReader: every cell is the text of the file.
ReaderCell(rows, c, i) == StrV(rows[i][c])

\* load_csv(path): one mapping per data row, keyed by the header's columns.
LoadCsv(table, hasPandas) ==
    [i \in 1..Len(table.rows) |->
        [c \in Columns |->
            IF c \notin table.header THEN Absent
            ELSE IF hasPandas THEN PandasCell(table.rows, c, i)
            ELSE ReaderCell(table.rows, c, i)]]

\* ------------------------------------------------------------ parse_invoices_from_data
NoInvoices == [exc |-> "none", invoices |-> EmptyDict]

Raised(e) == [exc |-> e, invoices |-> EmptyDict]

\* CSV branch: iid = str(row.get("invoice_id") or row.get("id") or "")
CsvIid(row) ==
    PyStr(PyOr(PyOr(Get(row, "invoice_id"), Get(row, "id")), StrV(<<>>)))

\* CSV branch: the qty argument of int(...)
CsvQtyArg(row) == GetD(row, "qty", GetD(row, "quantity", IntV(1)))

\* CSV branch: the item of a row whose qty int() accepts
CsvItem(row) ==
    [product |-> StrV(PyStr(GetD(row, "product", GetD(row, "name", StrV(<<>>))))),
     price |-> GetD(row, "price", IntV(0)),
     qty |-> IntV(PyInt(CsvQtyArg(row)).n)]

\* AppendItem with the fault "invoices[iid].insert(0, item)".
AppendItemInFront(invoices, key, item) ==
    Put(invoices, key,
        IF key \in DOMAIN invoices THEN <<item>> \o invoices[key] ELSE <<item>>)

\* invoices[iid].append(item), after "if iid not in invoices: invoices[iid] = []"
AppendItem(invoices, key, item) ==
    Put(invoices, key,
        IF key \in DOMAIN invoices THEN Append(invoices[key], item) ELSE <<item>>)

\* One iteration of "for row in data".
CsvStep(invoices, row) ==
    IF CsvIid(row) = <<>> THEN [exc |-> "none", invoices |-> invoices]
    ELSE IF PyInt(CsvQtyArg(row)).exc # "none" THEN Raised(PyInt(CsvQtyArg(row)).exc)
    ELSE [exc |-> "none",
          invoices |-> AppendItem(invoices, StrV(CsvIid(row)), CsvItem(row))]

\* The first n iterations of "for row in data".
RECURSIVE CsvLoop(_, _)
CsvLoop(data, n) ==
    IF n = 0 THEN NoInvoices
    ELSE LET acc == CsvLoop(data, n - 1)
         IN  IF acc.exc # "none" THEN acc ELSE CsvStep(acc.invoices, data[n])

\* JSON branch: iid = inv.get("invoice_id") or inv.get("id") or str(len(invoices))
JsonIid(invoices, inv) ==
    PyOr(PyOr(Get(inv, "invoice_id"), Get(inv, "id")),
         StrV(NatToStr(Cardinality(DOMAIN invoices))))

\* JSON branch: items = inv.get("items", [inv])
JsonItems(inv) == IF inv.items.present THEN inv.items.v ELSE <<inv>>

\* JSON branch: the item built from an item-like object
JsonItem(it) ==
    [product |-> GetD(it, "product", GetD(it, "name", StrV(<<>>))),
     price |-> GetD(it, "price", IntV(0)),
     qty |-> GetD(it, "qty", GetD(it, "quantity", IntV(1)))]

\* One iteration of "for inv in data"; an element that is no object has no
\* .get and raises AttributeError.
JsonStep(invoices, inv) ==
    IF inv.kind # "object" THEN Raised("AttributeError")
    ELSE [exc |-> "none",
          invoices |->
              Put(invoices, JsonIid(invoices, inv),
                  [i \in 1..Len(JsonItems(inv)) |-> JsonItem(JsonItems(inv)[i])])]

\* The first n iterations of "for inv in data".
RECURSIVE JsonLoop(_, _)
JsonLoop(data, n) ==
    IF n = 0 THEN NoInvoices
    ELSE LET acc == JsonLoop(data, n - 1)
         IN  IF acc.exc # "none" THEN acc ELSE JsonStep(acc.invoices, data[n])

DefaultInvoices ==
    [exc |-> "none",
     invoices |->
         Put(EmptyDict, StrV(<<"d", "e", "f", "a", "u", "l", "t">>),
             <<[product |-> StrV(<<"-">>), price |-> IntV(0), qty |-> IntV(1)]>>)]

\* parse_invoices_from_data(data, file_path), ext = file_path.suffix.lower()
ParseInvoicesFromData(data, ext) ==
    IF ext = ".json"
    THEN IF data.kind = "list" THEN JsonLoop(data.v, Len(data.v)) ELSE DefaultInvoices
    ELSE CsvLoop(data.v, Len(data.v))

\* ------------------------------------------------------------ main: pure steps
CSV_EXT == {".csv"}

JSON_EXT == {".json"}

HTML_EXT == {".html"}

\* sorted(...) of directory entries: by name, ascending code point order.
RECURSIVE SortedFiles(_)
SortedFiles(S) ==
    IF S = {} THEN <<>>
    ELSE LET m == CHOOSE f \in S : \A g \in S : Ord(f.name) <= Ord(g.name)
         IN  <<m>> \o SortedFiles(S \ {m})

\* get_data_files(): csv_files + json_files as main concatenates them.  The
\* suffix field of an entry is f.suffix.lower().
GetDataFiles(dir) ==
    SortedFiles({f \in dir : f.is_file /\ f.suffix \in CSV_EXT})
        \o SortedFiles({f \in dir : f.is_file /\ f.suffix \in JSON_EXT})

\* get_templates()
GetTemplates(dir) == SortedFiles({f \in dir : f.is_file /\ f.suffix \in HTML_EXT})

\* "if not data_files"
NoDataFiles(dataFiles) == dataFiles = <<>>

\* NoTemplates with the fault "if templates is None", never true of a list.
NoTemplatesIsNone(tpls) == FALSE

\* "if not templates"
NoTemplates(tpls) == tpls = <<>>

\* NoInvoicesParsed with the fault "if invoices is None", never true of a dict.
NoInvoicesIsNone(inv) == FALSE

\* "if not invoices"
NoInvoicesParsed(inv) == DOMAIN inv = {}

\* SelectAccepts with the fault "if 0 <= n <= max_num".
SelectAcceptsZero(text, maxNum) ==
    /\ IntOfText(Strip(text)).exc = "none"
    /\ 0 <= IntOfText(Strip(text)).n
    /\ IntOfText(Strip(text)).n <= maxNum

\* select_option: "if 1 <= n <= max_num" after n = int(s.strip())
SelectAccepts(text, maxNum) ==
    /\ IntOfText(Strip(text)).exc = "none"
    /\ 1 <= IntOfText(Strip(text)).n
    /\ IntOfText(Strip(text)).n <= maxNum

\* select_option: "return n - 1"
SelectReturn(text) == IntOfText(Strip(text)).n - 1

\* a < b for two str, as sorted() compares them
RECURSIVE StrLess(_, _)
StrLess(a, b) ==
    IF b = <<>> THEN FALSE
    ELSE IF a = <<>> THEN TRUE
    ELSE IF Head(a) # Head(b) THEN Ord(Head(a)) < Ord(Head(b))
    ELSE StrLess(Tail(a), Tail(b))

KeyLess(a, b) == IF a.t = "str" THEN StrLess(a.s, b.s) ELSE a.n < b.n

\* sorted(invoices.keys()) raises TypeError when it compares a str with an int.
SortRaises(keys) == \E a \in keys, b \in keys : a.t # b.t

RECURSIVE SortedKeys(_)
SortedKeys(keys) ==
    IF keys = {} THEN <<>>
    ELSE LET m == CHOOSE k \in keys : \A j \in keys : j = k \/ KeyLess(k, j)
         IN  <<m>> \o SortedKeys(keys \ {m})

\* SafeId with the fault "c if c.isalnum() else '_'": the "-_" exception is lost.
SafeIdAlnumOnly(id) == [i \in 1..Len(id) |-> IF IsAlnum(id[i]) THEN id[i] ELSE "_"]

\* "".join(c if c.isalnum() or c in "-_" else "_" for c in invoice_id)
SafeId(id) ==
    [i \in 1..Len(id) |-> IF IsAlnum(id[i]) \/ id[i] \in {"-", "_"} THEN id[i] ELSE "_"]

\* f"invoice_{safe_id}.pdf", the name of the file under OUTPUT_DIR
OutputName(id) ==
    <<"i", "n", "v", "o", "i", "c", "e", "_">> \o SafeId(id) \o <<".", "p", "d", "f">>

\* open_pdf(path): the exception it lets out ("none" when it returns).  launch is
\* what the platform's mechanism does: "ok", "nonzero" (the viewer command exits
\* with an error status) or "missing" (no such command, no file association).
OpenPdf(system, launch) ==
    IF system = "Windows"
    THEN IF launch = "ok" THEN "none" ELSE "OSError"
    ELSE IF launch = "missing" THEN "FileNotFoundError" ELSE "none"

\* ------------------------------------------------------------ inputs
SeqsUpTo(S, n) == UNION {[1..k -> S] : k \in 0..n}

\* Entries /data can hold: b.csv, a.json, c.txt and a directory named d.csv.
DataEntries ==
    {[name |-> "b", suffix |-> ".csv", is_file |-> TRUE],
     [name |-> "a", suffix |-> ".json", is_file |-> TRUE],
     [name |-> "c", suffix |-> ".txt", is_file |-> TRUE],
     [name |-> "d", suffix |-> ".csv", is_file |-> FALSE]}

\* Entries /templates can hold.
TemplateEntries ==
    {[name |-> "t", suffix |-> ".html", is_file |-> TRUE],
     [name |-> "u", suffix |-> ".txt", is_file |-> TRUE]}

TextA1 == <<"A", "1">>

TextDash == <<"b", "-", "_", ".">>

TextSlash == <<"i", "n", "v", "/", "2", "0", "2", "4", ":", "0", "1">>

\* Data rows under the header invoice_id,id,product,price,qty
RowsFull ==
    [invoice_id : {<<>>, TextA1}, id : {<<>>, TextDash},
     product : {<<"W">>}, name : {<<>>}, price : {<<"9">>},
     qty : {<<"2">>, <<"3">>, <<>>}, quantity : {<<>>}]

\* Data rows under the header id,name,price,quantity
RowsAlt ==
    [invoice_id : {<<>>}, id : {<<>>, <<"0">>, TextSlash},
     product : {<<>>}, name : {<<"W">>}, price : {<<"9">>},
     qty : {<<>>}, quantity : {<<"2">>, <<"x">>}]

\* Data rows under the header invoice_id,product,price
RowsNoQty ==
    [invoice_id : {<<>>, <<"0">>, <<"1">>, TextA1}, id : {<<>>},
     product : {<<"W">>}, name : {<<>>}, price : {<<"9">>},
     qty : {<<>>}, quantity : {<<>>}]

CsvTables ==
    {[header |-> {"invoice_id", "id", "product", "price", "qty"}, rows |-> r] :
        r \in SeqsUpTo(RowsFull, MaxRows)}
    \cup {[header |-> {"id", "name", "price", "quantity"}, rows |-> r] :
        r \in SeqsUpTo(RowsAlt, MaxRows)}
    \cup {[header |-> {"invoice_id", "product", "price"}, rows |-> r] :
        r \in SeqsUpTo(RowsNoQty, MaxRows)}

NoItems == [present |-> FALSE, v |-> <<>>]

ItemList(v) == [present |-> TRUE, v |-> v]

\* A JSON object with the keys whose value is not Absent.
Obj(iid, id, items, product, name, price, qty, quantity) ==
    [kind |-> "object", invoice_id |-> iid, id |-> id, items |-> items,
     product |-> product, name |-> name, price |-> price, qty |-> qty,
     quantity |-> quantity]

Item(product, name, price, qty, quantity) ==
    [product |-> product, name |-> name, price |-> price, qty |-> qty,
     quantity |-> quantity]

\* Elements a JSON array can hold.
JsonElems ==
    {Obj(Absent, Absent, NoItems, Absent, Absent, Absent, Absent, Absent),
     Obj(Absent, StrV(<<"1">>), NoItems, StrV(<<"W">>), Absent, IntV(9), IntV(2), Absent),
     Obj(StrV(TextA1), Absent,
         ItemList(<<Item(Absent, StrV(<<"W">>), IntV(9), Absent, IntV(3))>>),
         Absent, Absent, Absent, Absent, Absent),
     Obj(StrV(TextA1), StrV(<<"1">>), ItemList(<<>>),
         Absent, Absent, Absent, Absent, Absent),
     Obj(IntV(7), Absent, NoItems, StrV(<<"W">>), Absent, IntV(9), StrV(<<"2">>), Absent),
     Obj(StrV(<<>>), IntV(0), NoItems, StrV(<<"V">>), Absent, IntV(9), None, Absent),
     Obj(StrV(TextSlash), Absent,
         ItemList(<<Item(StrV(<<"W">>), Absent, IntV(9), IntV(2), Absent),
                    Item(StrV(<<"V">>), Absent, Absent, Absent, Absent)>>),
         Absent, Absent, Absent, Absent, Absent),
     [kind |-> "scalar", invoice_id |-> Absent, id |-> Absent, items |-> NoItems,
      product |-> Absent, name |-> Absent, price |-> Absent, qty |-> Absent,
      quantity |-> Absent]}

\* What json.load can return: an array of elements, or a value that is no array.
JsonDocs ==
    {[kind |-> "other", v |-> <<>>]}
    \cup {[kind |-> "list", v |-> q] : q \in SeqsUpTo(JsonElems, MaxElems)}

\* What the user can type at a prompt.
Inputs ==
    {<<>>, <<"0">>, <<"-", "1">>, <<"x">>, <<"1">>, <<" ", "2", " ">>,
     <<"+", "3">>, <<"4">>, <<"9">>}

Systems == {"Windows", "Darwin", "Linux"}

Launches == {"ok", "nonzero", "missing"}

\* ------------------------------------------------------------ state
VARIABLES
    HAS_PANDAS,   \* lines 27-31: module global set by "import pandas"
    pc,           \* where main (lines 190-257) is: the shell state about to run
    sel,          \* where select_option (177-187) is: "idle", "input", "check"
    s,            \* line 181: select_option's s, the text read last
    data_files,   \* line 194
    templates,    \* line 195
    idx_data,     \* line 215; -1 while unassigned
    idx_tpl,      \* line 223; -1 while unassigned
    idx_inv,      \* line 244; -1 while unassigned
    raw,          \* lines 229 and 231; Unset while unassigned
    invoices,     \* line 233
    inv_ids,      \* line 239
    invoice_id,   \* line 245; None while unassigned
    output_path,  \* line 252: the file name of output_path, <<>> while unassigned
    pdf,          \* line 151: the names of the PDF files written to OUTPUT_DIR
    out,          \* the print calls: the set of messages, menus and prompts shown
    exc,          \* the exception that ended main, "none" otherwise
    exit_code     \* <<>> while running, <<c>> once the process exited with c

vars ==
    <<HAS_PANDAS, pc, sel, s, data_files, templates, idx_data, idx_tpl, idx_inv,
      raw, invoices, inv_ids, invoice_id, output_path, pdf, out, exc, exit_code>>

Unset == [kind |-> "unset", v |-> <<>>]

SelectStates == {"SELECT_DATA", "SELECT_TEMPLATE", "SELECT_INVOICE"}

\* The max_num argument of the select_option call main is in.
MaxNum ==
    CASE pc = "SELECT_DATA" -> Len(data_files)
      [] pc = "SELECT_TEMPLATE" -> Len(templates)
      [] pc = "SELECT_INVOICE" -> Len(inv_ids)
      [] OTHER -> 0

Init ==
    /\ HAS_PANDAS \in BOOLEAN
    /\ pc = "START"
    /\ sel = "idle"
    /\ s = <<>>
    /\ data_files = <<>>
    /\ templates = <<>>
    /\ idx_data = -1
    /\ idx_tpl = -1
    /\ idx_inv = -1
    /\ raw = Unset
    /\ invoices = EmptyDict
    /\ inv_ids = <<>>
    /\ invoice_id = None
    /\ output_path = <<>>
    /\ pdf = {}
    /\ out = {}
    /\ exc = "none"
    /\ exit_code = <<>>

\* sys.exit(code)
Exit(code) ==
    /\ pc' = "END"
    /\ sel' = "idle"
    /\ exc' = "SystemExit"
    /\ exit_code' = <<code>>

\* An exception nobody catches: traceback, exit status 1.
Raise(e) ==
    /\ pc' = "END"
    /\ sel' = "idle"
    /\ exc' = e
    /\ exit_code' = <<1>>

\* main, lines 191-195: ensure_dirs and discovery
Discover ==
    /\ pc = "START"
    /\ \E dd \in SUBSET DataEntries, td \in SUBSET TemplateEntries :
           /\ data_files' = GetDataFiles(dd)
           /\ templates' = GetTemplates(td)
    /\ pc' = "CHECK_INPUTS"
    /\ UNCHANGED <<HAS_PANDAS, sel, s, idx_data, idx_tpl, idx_inv, raw, invoices,
                   inv_ids, invoice_id, output_path, pdf, out, exc, exit_code>>

\* main, lines 197-215 up to the first input()
CheckInputs ==
    /\ pc = "CHECK_INPUTS"
    /\ IF NoDataFiles(data_files)
       THEN /\ out' = out \cup {"no data files"}
            /\ Exit(1)
       ELSE IF NoTemplates(templates)
       THEN /\ out' = out \cup {"no templates"}
            /\ Exit(1)
       ELSE /\ out' = out \cup {"banner", "menu data"}
            /\ pc' = "SELECT_DATA"
            /\ sel' = "input"
            /\ UNCHANGED <<exc, exit_code>>
    /\ UNCHANGED <<HAS_PANDAS, s, data_files, templates, idx_data, idx_tpl, idx_inv,
                   raw, invoices, inv_ids, invoice_id, output_path, pdf>>

\* select_option, line 181: s = input(prompt).strip(); at the end of the input
\* input() raises EOFError, which nothing catches
SelectInput ==
    /\ pc \in SelectStates
    /\ sel = "input"
    /\ out' = out \cup {"prompt"}
    /\ \/ /\ \E text \in Inputs : s' = Strip(text)
          /\ sel' = "check"
          /\ UNCHANGED <<pc, exc, exit_code>>
       \/ /\ Raise("EOFError")
          /\ UNCHANGED s
    /\ UNCHANGED <<HAS_PANDAS, data_files, templates, idx_data, idx_tpl, idx_inv,
                   raw, invoices, inv_ids, invoice_id, output_path, pdf>>

\* select_option, lines 182-187 when the text is refused: print the hint, loop
SelectRetry ==
    /\ pc \in SelectStates
    /\ sel = "check"
    /\ ~SelectAccepts(s, MaxNum)
    /\ sel' = "input"
    /\ out' = out \cup {"hint"}
    /\ UNCHANGED <<HAS_PANDAS, pc, s, data_files, templates, idx_data, idx_tpl,
                   idx_inv, raw, invoices, inv_ids, invoice_id, output_path, pdf,
                   exc, exit_code>>

\* select_option returns to line 215; main, lines 215-223 up to the next input()
SelectData ==
    /\ pc = "SELECT_DATA"
    /\ sel = "check"
    /\ SelectAccepts(s, MaxNum)
    /\ idx_data' = SelectReturn(s)
    /\ s' = <<>>
    /\ out' = out \cup {"menu templates"}
    /\ pc' = "SELECT_TEMPLATE"
    /\ sel' = "input"
    /\ UNCHANGED <<HAS_PANDAS, data_files, templates, idx_tpl, idx_inv, raw,
                   invoices, inv_ids, invoice_id, output_path, pdf, exc, exit_code>>

\* select_option returns to line 223; main, lines 223-224
SelectTemplate ==
    /\ pc = "SELECT_TEMPLATE"
    /\ sel = "check"
    /\ SelectAccepts(s, MaxNum)
    /\ idx_tpl' = SelectReturn(s)
    /\ s' = <<>>
    /\ pc' = "LOAD_DATA"
    /\ sel' = "idle"
    /\ UNCHANGED <<HAS_PANDAS, data_files, templates, idx_data, idx_inv, raw,
                   invoices, inv_ids, invoice_id, output_path, pdf, out, exc,
                   exit_code>>

\* main, lines 227-231: load_csv or load_json of data_files[idx_data]; a file the
\* parser refuses raises
LoadData ==
    /\ pc = "LOAD_DATA"
    /\ \/ /\ data_files[idx_data + 1].suffix = ".csv"
          /\ \E table \in CsvTables :
                 raw' = [kind |-> "rows", v |-> LoadCsv(table, HAS_PANDAS)]
          /\ pc' = "NORMALIZE"
          /\ UNCHANGED <<sel, exc, exit_code>>
       \/ /\ data_files[idx_data + 1].suffix # ".csv"
          /\ \E doc \in JsonDocs : raw' = doc
          /\ pc' = "NORMALIZE"
          /\ UNCHANGED <<sel, exc, exit_code>>
       \/ /\ Raise("ParseError")
          /\ UNCHANGED raw
    /\ UNCHANGED <<HAS_PANDAS, s, data_files, templates, idx_data, idx_tpl, idx_inv,
                   invoices, inv_ids, invoice_id, output_path, pdf, out>>

\* main, lines 233-244 up to input(): parse, the empty check, the invoice menu
Normalize ==
    /\ pc = "NORMALIZE"
    /\ LET r == ParseInvoicesFromData(raw, data_files[idx_data + 1].suffix)
       IN  IF r.exc # "none"
           THEN /\ Raise(r.exc)
                /\ UNCHANGED <<invoices, inv_ids, out>>
           ELSE IF NoInvoicesParsed(r.invoices)
           THEN /\ invoices' = r.invoices
                /\ out' = out \cup {"no invoices"}
                /\ Exit(1)
                /\ UNCHANGED inv_ids
           ELSE IF SortRaises(DOMAIN r.invoices)
           THEN /\ invoices' = r.invoices
                /\ Raise("TypeError")
                /\ UNCHANGED <<inv_ids, out>>
           ELSE /\ invoices' = r.invoices
                /\ inv_ids' = SortedKeys(DOMAIN r.invoices)
                /\ out' = out \cup {"menu invoices"}
                /\ pc' = "SELECT_INVOICE"
                /\ sel' = "input"
                /\ UNCHANGED <<exc, exit_code>>
    /\ UNCHANGED <<HAS_PANDAS, s, data_files, templates, idx_data, idx_tpl, idx_inv,
                   raw, invoice_id, output_path, pdf>>

\* select_option returns to line 244; main, lines 244-246
SelectInvoice ==
    /\ pc = "SELECT_INVOICE"
    /\ sel = "check"
    /\ SelectAccepts(s, MaxNum)
    /\ idx_inv' = SelectReturn(s)
    /\ invoice_id' = inv_ids[SelectReturn(s) + 1]
    /\ s' = <<>>
    /\ pc' = "RENDER"
    /\ sel' = "idle"
    /\ UNCHANGED <<HAS_PANDAS, data_files, templates, idx_data, idx_tpl, raw,
                   invoices, inv_ids, output_path, pdf, out, exc, exit_code>>

\* main, lines 249-250: render_html returns the markup or raises
Render ==
    /\ pc = "RENDER"
    /\ \/ /\ pc' = "EMIT"
          /\ UNCHANGED <<sel, exc, exit_code>>
       \/ Raise("TemplateError")
    /\ UNCHANGED <<HAS_PANDAS, s, data_files, templates, idx_data, idx_tpl, idx_inv,
                   raw, invoices, inv_ids, invoice_id, output_path, pdf, out>>

\* main, lines 251-255: the file name, generate_pdf (writes the file or raises),
\* the "saved" message.  Iterating an invoice_id that is no str raises TypeError.
Emit ==
    /\ pc = "EMIT"
    /\ IF ~IsStr(invoice_id)
       THEN /\ Raise("TypeError")
            /\ UNCHANGED <<output_path, pdf, out>>
       ELSE /\ output_path' = OutputName(invoice_id.s)
            /\ \/ /\ pdf' = pdf \cup {OutputName(invoice_id.s)}
                  /\ out' = out \cup {"saved"}
                  /\ pc' = "OPEN"
                  /\ UNCHANGED <<sel, exc, exit_code>>
               \/ /\ Raise("RenderError")
                  /\ UNCHANGED <<pdf, out>>
    /\ UNCHANGED <<HAS_PANDAS, s, data_files, templates, idx_data, idx_tpl, idx_inv,
                   raw, invoices, inv_ids, invoice_id>>

\* main, lines 256-257: open_pdf, the "opened" message, the end of main
Open ==
    /\ pc = "OPEN"
    /\ \E system \in Systems, launch \in Launches :
           IF OpenPdf(system, launch) # "none"
           THEN /\ Raise(OpenPdf(system, launch))
                /\ UNCHANGED out
           ELSE /\ out' = out \cup {"opened"}
                /\ pc' = "END"
                /\ exit_code' = <<0>>
                /\ UNCHANGED <<sel, exc>>
    /\ UNCHANGED <<HAS_PANDAS, s, data_files, templates, idx_data, idx_tpl, idx_inv,
                   raw, invoices, inv_ids, invoice_id, output_path, pdf>>

Next ==
    \/ Discover
    \/ CheckInputs
    \/ SelectInput
    \/ SelectRetry
    \/ SelectData
    \/ SelectTemplate
    \/ LoadData
    \/ Normalize
    \/ SelectInvoice
    \/ Render
    \/ Emit
    \/ Open

Spec == Init /\ [][Next]_vars

\* ------------------------------------------------------------ properties
\* parse_invoices_from_data has returned: invoices holds a non-empty InvoiceSet,
\* or main has reported the empty one.
Normalized == DOMAIN invoices # {} \/ "no invoices" \in out

\* The number of line items of an InvoiceSet.
RECURSIVE CountItems(_, _)
CountItems(inv, keys) ==
    IF keys = {} THEN 0
    ELSE LET k == CHOOSE x \in keys : TRUE
         IN  Len(inv[k]) + CountItems(inv, keys \ {k})

NumItems(inv) == CountItems(inv, DOMAIN inv)

\* A CSV field with nothing in it: the column is missing, or the cell is empty
\* (the empty text of csv.DictReader, the nan of pandas).
Blank(v) == v \in {Absent, None, NaN, StrV(<<>>)}

BothBlank(row) == Blank(row["invoice_id"]) /\ Blank(row["id"])

\* C1: for CSV input the rows left out of the InvoiceSet are exactly the rows
\* whose invoice_id and id are both blank: the number of dropped rows is the
\* number of such rows, every other row contributes one line item.
C1_DroppedIffBothBlank ==
    (raw.kind = "rows" /\ Normalized) =>
        Len(raw.v) - NumItems(invoices)
            = Cardinality({i \in 1..Len(raw.v) : BothBlank(raw.v[i])})

\* Element i of a JSON array carries an id of its own (invoice_id or id).
HasExplicitId(inv) == Truthy(Get(inv, "invoice_id")) \/ Truthy(Get(inv, "id"))

\* The key element i of the array is stored under, and whether that key was
\* already in the mapping when element i was processed.
KeyOfElem(data, i) == JsonIid(JsonLoop(data, i - 1).invoices, data[i])

Collides(data, i) == KeyOfElem(data, i) \in DOMAIN JsonLoop(data, i - 1).invoices

\* C2: for a JSON array the number of invoice keys is the number of elements
\* with a non-colliding id of their own plus the number of elements given a
\* synthesized id; only an element with an id of its own overwrites an entry.
C2_FallbackNeverDrops ==
    (raw.kind = "list" /\ Normalized) =>
        /\ Cardinality(DOMAIN invoices)
               = Cardinality({i \in 1..Len(raw.v) :
                                  HasExplicitId(raw.v[i]) /\ ~Collides(raw.v, i)})
                 + Cardinality({i \in 1..Len(raw.v) : ~HasExplicitId(raw.v[i])})
        /\ \A i \in 1..Len(raw.v) : Collides(raw.v, i) => HasExplicitId(raw.v[i])

\* C3: every line item of the InvoiceSet, from CSV or from JSON, has an int qty.
C3_QtyIsInteger ==
    Normalized =>
        \A k \in DOMAIN invoices :
            \A i \in 1..Len(invoices[k]) : IsInt(invoices[k][i].qty)

\* C4: every key of the InvoiceSet, from CSV or from JSON, is a non-empty str.
C4_KeysAreNonEmptyStrings ==
    Normalized => \A k \in DOMAIN invoices : IsStr(k) /\ k.s # <<>>

\* C5: once the PDF is written and its path reported, the run ends as a
\* success whatever open_pdf does.
C5_OpenFailureNotFatal ==
    (pc = "END" /\ "saved" \in out) => (exit_code = <<0>> /\ exc = "none")

\* The numbers 1..maxNum the text t spells (t is stripped already).
Spelled(t, maxNum) ==
    {n \in 1..maxNum : t = NatToStr(n) \/ t = <<"+">> \o NatToStr(n)}

\* C6: select_option refuses every text that is no integer of 1..max_num, prints
\* the hint and prompts again without main moving on; it returns only for an
\* integer n of 1..max_num, and then n - 1, an index of the caller's list.
C6_SelectOption ==
    [][sel = "check" =>
          IF Spelled(s, MaxNum) = {}
          THEN /\ pc' = pc
               /\ sel' = "input"
               /\ "hint" \in out'
               /\ <<idx_data, idx_tpl, idx_inv>>' = <<idx_data, idx_tpl, idx_inv>>
          ELSE /\ pc' # pc
               /\ \A n \in Spelled(s, MaxNum) :
                      CASE pc = "SELECT_DATA" -> idx_data' = n - 1
                        [] pc = "SELECT_TEMPLATE" -> idx_tpl' = n - 1
                        [] OTHER -> idx_inv' = n - 1
               /\ idx_data' \in -1..(Len(data_files) - 1)
               /\ idx_tpl' \in -1..(Len(templates) - 1)
               /\ idx_inv' \in -1..(Len(inv_ids) - 1)]_vars

\* C6 witness: the second data file was chosen after a refused entry.
C6_Witness == pc = "SELECT_TEMPLATE" /\ idx_data = 1 /\ "hint" \in out

\* C7: with no data files or no templates main exits with code 1 from
\* CHECK_INPUTS: no banner, menu or prompt is printed and nothing is loaded,
\* normalized, rendered, written or opened.
C7_EmptyInputsExit ==
    (pc # "START" /\ (data_files = <<>> \/ templates = <<>>)) =>
        /\ pc \in {"CHECK_INPUTS", "END"}
        /\ pc = "END" => (exit_code = <<1>> /\ exc = "SystemExit")
        /\ out \subseteq {"no data files", "no templates"}
        /\ sel = "idle"
        /\ raw = Unset
        /\ invoices = EmptyDict
        /\ pdf = {}

\* C7 witness: data files but no template, and main has exited.
C7_Witness == pc = "END" /\ data_files # <<>> /\ templates = <<>>

\* C8: when the selected file normalizes to an empty InvoiceSet main exits with
\* code 1 and never reaches SELECT_INVOICE, RENDER, EMIT or OPEN; the invoice
\* menu is only shown with at least one invoice id.
C8_EmptyInvoiceSetExit ==
    /\ (raw.kind # "unset" /\ pc # "NORMALIZE"
            /\ ParseInvoicesFromData(raw, data_files[idx_data + 1].suffix)
                   = NoInvoices) =>
           /\ pc = "END"
           /\ exit_code = <<1>>
           /\ exc = "SystemExit"
           /\ "menu invoices" \notin out
           /\ idx_inv = -1
           /\ pdf = {}
    /\ ("menu invoices" \in out) => (Len(inv_ids) >= 1 /\ DOMAIN invoices # {})

\* C8 witness: a CSV file with rows, all of them dropped.
C8_Witness ==
    pc = "END" /\ "no invoices" \in out /\ raw.kind = "rows" /\ Len(raw.v) > 0

\* A character the file name keeps.
Kept(c) == c \in Letters \/ c \in DigitSet \/ c = "-" \/ c = "_"

FileName(safe) ==
    <<"i", "n", "v", "o", "i", "c", "e", "_">> \o safe \o <<".", "p", "d", "f">>

\* C9: the file name is invoice_<safe>.pdf where safe is as long as the invoice
\* id, equals it at every alphanumeric, '-' or '_' and has '_' (a change) at
\* every other character; sanitizing twice changes nothing more;
\* "inv/2024:01" gives invoice_inv_2024_01.pdf.
C9_OutputName ==
    output_path # <<>> =>
        \E safe \in {SafeId(invoice_id.s)} :
            /\ output_path = FileName(safe)
            /\ Len(safe) = Len(invoice_id.s)
            /\ \A i \in 1..Len(safe) :
                   /\ Kept(invoice_id.s[i]) => safe[i] = invoice_id.s[i]
                   /\ ~Kept(invoice_id.s[i]) =>
                          (safe[i] = "_" /\ safe[i] # invoice_id.s[i])
            /\ SafeId(safe) = safe
            /\ invoice_id.s = TextSlash =>
                   output_path = <<"i", "n", "v", "o", "i", "c", "e", "_",
                                   "i", "n", "v", "_", "2", "0", "2", "4", "_",
                                   "0", "1", ".", "p", "d", "f">>

\* C9 witness: the PDF of invoice "b-_." was written as invoice_b-__.pdf.
C9_Witness ==
    /\ invoice_id = StrV(TextDash)
    /\ FileName(<<"b", "-", "_", "_">>) \in pdf

\* The items of the rows of data whose derived id is the key k, in row order.
RECURSIVE ItemsUnder(_, _)
ItemsUnder(data, k) ==
    IF data = <<>> THEN <<>>
    ELSE IF CsvIid(Head(data)) # <<>> /\ StrV(CsvIid(Head(data))) = k
         THEN <<CsvItem(Head(data))>> \o ItemsUnder(Tail(data), k)
         ELSE ItemsUnder(Tail(data), k)

\* C10: for CSV input the InvoiceSet partitions the rows that are not dropped:
\* the keys are the derived ids of those rows, and under each key stand the
\* items of exactly the rows with that id, in file order.
C10_CsvPartition ==
    (raw.kind = "rows" /\ Normalized) =>
        /\ DOMAIN invoices
               = {StrV(CsvIid(raw.v[i])) :
                      i \in {j \in 1..Len(raw.v) : CsvIid(raw.v[j]) # <<>>}}
        /\ \A k \in DOMAIN invoices : invoices[k] = ItemsUnder(raw.v, k)
        /\ NumItems(invoices)
               = Cardinality({j \in 1..Len(raw.v) : CsvIid(raw.v[j]) # <<>>})

\* C10 witness: one id with two rows whose items differ, kept in file order.
C10_Witness ==
    /\ raw.kind = "rows"
    /\ \E k \in DOMAIN invoices :
           /\ Len(invoices[k]) = 2
           /\ invoices[k][1].qty = IntV(3)
           /\ invoices[k][2].qty = IntV(2)

====
